---------------------------- MODULE Spec2Model ----------------------------
(***************************************************************************)
(* Outreach-Pro-Agent: the per-lead pipeline of OutreachOrchestrator       *)
(* (orchestrator.py), its quality evaluator and the persistence rows it    *)
(* writes.                                                                 *)
(*                                                                         *)
(* Python floats are IEEE-754 doubles.  A double is kept here as its exact *)
(* value in units of 2^-64, written as nine base-256 limbs, least          *)
(* significant first (so 1.0 is <<0,0,0,0,0,0,0,0,1>>).  Sums and products *)
(* are computed exactly and then rounded to 53 significant bits, ties to   *)
(* even, which is what the hardware does for values in the range used      *)
(* here (0 and [2^-11, 256)).                                              *)
(***************************************************************************)
EXTENDS Integers, Sequences, FiniteSets, TLC

(***************************************************************************)
(* Double arithmetic                                                       *)
(***************************************************************************)
RECURSIVE Carry(_, _, _)
Carry(cols, i, c) ==
    IF i > Len(cols) THEN <<>>
    ELSE LET v == cols[i] + c
         IN  <<v % 256>> \o Carry(cols, i + 1, v \div 256)

BigAdd(a, b) == Carry([i \in 1..Len(a) |-> a[i] + b[i]], 1, 0)

RECURSIVE ColSum(_, _, _, _)
ColSum(a, b, k, i) ==
    IF i > Len(a) THEN 0
    ELSE (IF (k + 1 - i) \in 1..Len(b) THEN a[i] * b[k + 1 - i] ELSE 0)
         + ColSum(a, b, k, i + 1)

BigMul(a, b) == Carry([k \in 1..(Len(a) + Len(b)) |-> ColSum(a, b, k, 1)], 1, 0)

Bit(x, i) == (x[(i \div 8) + 1] \div (2 ^ (i % 8))) % 2

RECURSIVE TopLimb(_, _)
TopLimb(x, i) == IF i = 0 THEN 0 ELSE IF x[i] # 0 THEN i ELSE TopLimb(x, i - 1)

BitLen(x) ==
    LET t == TopLimb(x, Len(x))
    IN  IF t = 0 THEN 0
        ELSE 8 * (t - 1) + (CHOOSE n \in 1..8 : 2 ^ (n - 1) <= x[t] /\ x[t] < 2 ^ n)

\* round to nearest, ties to even, at 53 significant bits
RoundBits(x) ==
    LET sh == BitLen(x) - 53
    IN  IF sh <= 0 THEN x
        ELSE LET half   == Bit(x, sh - 1) = 1
                 odd    == Bit(x, sh) = 1
                 sticky == \E j \in 0..(sh - 2) : Bit(x, j) = 1
                 trunc  == [k \in 1..Len(x) |->
                              IF 8 * k <= sh THEN 0
                              ELSE IF 8 * (k - 1) >= sh THEN x[k]
                              ELSE (x[k] \div (2 ^ (sh - 8 * (k - 1))))
                                   * (2 ^ (sh - 8 * (k - 1)))]
                 ulp    == [k \in 1..Len(x) |->
                              IF k = (sh \div 8) + 1 THEN 2 ^ (sh % 8) ELSE 0]
             IN  IF half /\ (odd \/ sticky) THEN BigAdd(trunc, ulp)
                 ELSE Carry(trunc, 1, 0)

FloatAdd(a, b) == RoundBits(BigAdd(a, b))

\* the exact product is in units of 2^-128: round, then back to units of 2^-64
FloatMul(a, b) == SubSeq(RoundBits(BigMul(a, b)), 9, 17)

RECURSIVE LessFrom(_, _, _)
LessFrom(a, b, i) ==
    IF i = 0 THEN FALSE
    ELSE IF a[i] # b[i] THEN a[i] < b[i]
    ELSE LessFrom(a, b, i - 1)

FloatLess(a, b) == LessFrom(a, b, Len(a))

FloatGe(a, b) == ~FloatLess(a, b)

\* the literals of orchestrator.py and config.py, as the doubles Python reads
F0_0 == <<0, 0, 0, 0, 0, 0, 0, 0, 0>>
F0_1 == <<0, 154, 153, 153, 153, 153, 153, 25, 0>>
F0_2 == <<0, 52, 51, 51, 51, 51, 51, 51, 0>>
F0_3 == <<0, 204, 204, 204, 204, 204, 204, 76, 0>>
F0_7 == <<0, 48, 51, 51, 51, 51, 51, 179, 0>>
F0_8 == <<0, 208, 204, 204, 204, 204, 204, 204, 0>>

\* relevance scores a reply can carry
F0_4  == <<0, 104, 102, 102, 102, 102, 102, 102, 0>>
F0_5  == <<0, 0, 0, 0, 0, 0, 0, 128, 0>>
F0_92 == <<0, 136, 235, 81, 184, 30, 133, 235, 0>>
F1_0  == <<0, 0, 0, 0, 0, 0, 0, 0, 1>>


(***************************************************************************)
(* Replies of the generation service and the quality evaluator             *)
(***************************************************************************)
\* A body text is kept by what _quality_control reads of it: its number of
\* whitespace-separated words, whether a call-to-action keyword occurs in
\* it and whether a spam phrase occurs in it.
EmptyBody == [text |-> "", words |-> 0, cta |-> FALSE, spam |-> FALSE]

\* the mock reply of _get_mock_response to the e-mail prompt
MockEmail ==
    [keys |-> {"subject_line", "email_body", "personalization_elements"},
     subject_line |-> "Your post about deployment bottlenecks",
     email_body |-> [text |-> "mock", words |-> 65, cta |-> TRUE, spam |-> FALSE],
     personalization_elements |-> 4]

\* what generate_personalized_email returns when the reply is not JSON
FallbackEmail ==
    [keys |-> {"subject_line", "email_body", "personalization_elements", "error"},
     subject_line |-> "Quick question about your work at ",
     email_body |-> [text |-> "raw", words |-> 30, cta |-> FALSE, spam |-> FALSE],
     personalization_elements |-> 0]

\* parsed replies of other shapes: a generic one, one that meets three of
\* the four checks, and one without a subject_line key
WeakEmail ==
    [keys |-> {"subject_line", "email_body", "personalization_elements"},
     subject_line |-> "Hello",
     email_body |-> [text |-> "weak", words |-> 201, cta |-> FALSE, spam |-> TRUE],
     personalization_elements |-> 2]

NearEmail ==
    [keys |-> {"subject_line", "email_body", "personalization_elements"},
     subject_line |-> "Scaling your team",
     email_body |-> [text |-> "near", words |-> 50, cta |-> TRUE, spam |-> TRUE],
     personalization_elements |-> 3]

NoSubjectEmail ==
    [keys |-> {"email_body", "personalization_elements"},
     subject_line |-> "",
     email_body |-> [text |-> "nosubject", words |-> 200, cta |-> TRUE, spam |-> FALSE],
     personalization_elements |-> 3]

NoEmail == [keys |-> {}, subject_line |-> "", email_body |-> EmptyBody,
            personalization_elements |-> 0]

ParsedEmails == {MockEmail, WeakEmail, NearEmail, NoSubjectEmail}

\* analysis replies: json.loads of the reply, or the fallback of
\* analyze_lead_profile; has_score says whether the relevance_score key is there
ParsedAnalysis(has, score) == [kind |-> "parsed", has_score |-> has, relevance_score |-> score]

FallbackAnalysis == [kind |-> "fallback", has_score |-> TRUE, relevance_score |-> F0_5]

NoAnalysis == [kind |-> "none", has_score |-> FALSE, relevance_score |-> F0_0]

RelevanceScores == {F0_4, F0_7, F0_92, F1_0}

ParsedAnalyses ==
    {ParsedAnalysis(TRUE, s) : s \in RelevanceScores} \cup {ParsedAnalysis(FALSE, F0_0)}

\* analysis.get('relevance_score', 0)
GetRelevance(analysis) ==
    IF analysis.has_score THEN analysis.relevance_score ELSE F0_0

NoQualityCheck ==
    [quality_score |-> F0_0, passes_qa |-> FALSE, issues |-> <<>>,
     word_count |-> 0, personalization_count |-> 0]

\* _quality_control, lines 232-292
QualityControlNoRelevance(email, analysis) ==
    LET personalization_count ==
            IF "personalization_elements" \in email.keys
            THEN email.personalization_elements ELSE 0
        body == IF "email_body" \in email.keys THEN email.email_body ELSE EmptyBody
        word_count == body.words
        ok1 == personalization_count >= 3
        ok2 == 50 <= word_count /\ word_count <= 200
        ok3 == body.cta
        ok4 == ~body.spam
        s1 == IF ok1 THEN FloatAdd(F0_0, F0_3) ELSE F0_0
        s2 == IF ok2 THEN FloatAdd(s1, F0_2) ELSE s1
        s3 == IF ok3 THEN FloatAdd(s2, F0_2) ELSE s2
        s4 == IF ok4 THEN FloatAdd(s3, F0_2) ELSE s3
        s5 == s4
    IN  [quality_score |-> s5,
         passes_qa |-> FloatGe(s5, F0_7),
         issues |-> (IF ok1 THEN <<>> ELSE <<"personalization">>)
                    \o (IF ok2 THEN <<>> ELSE <<"word_count">>)
                    \o (IF ok3 THEN <<>> ELSE <<"cta">>)
                    \o (IF ok4 THEN <<>> ELSE <<"spam">>),
         word_count |-> word_count,
         personalization_count |-> personalization_count]

QualityControlFirstIssue(email, analysis) ==
    LET check == QualityControlNoRelevance(email, analysis)
    IN  [check EXCEPT !.issues = IF @ = <<>> THEN @ ELSE <<@[1]>>]

QualityControlRelevanceFifth(email, analysis) ==
    LET check == QualityControlNoRelevance(email, analysis)
        score == FloatAdd(check.quality_score,
                          FloatMul(GetRelevance(analysis), F0_2))
    IN  [check EXCEPT !.quality_score = score,
                      !.passes_qa = FloatGe(score, F0_7)]

QualityControl(email, analysis) ==
    LET personalization_count ==
            IF "personalization_elements" \in email.keys
            THEN email.personalization_elements ELSE 0
        body == IF "email_body" \in email.keys THEN email.email_body ELSE EmptyBody
        word_count == body.words
        ok1 == personalization_count >= 3
        ok2 == 50 <= word_count /\ word_count <= 200
        ok3 == body.cta
        ok4 == ~body.spam
        s1 == IF ok1 THEN FloatAdd(F0_0, F0_3) ELSE F0_0
        s2 == IF ok2 THEN FloatAdd(s1, F0_2) ELSE s1
        s3 == IF ok3 THEN FloatAdd(s2, F0_2) ELSE s2
        s4 == IF ok4 THEN FloatAdd(s3, F0_2) ELSE s3
        s5 == FloatAdd(s4, FloatMul(GetRelevance(analysis), F0_1))
    IN  [quality_score |-> s5,
         passes_qa |-> FloatGe(s5, F0_7),
         issues |-> (IF ok1 THEN <<>> ELSE <<"personalization">>)
                    \o (IF ok2 THEN <<>> ELSE <<"word_count">>)
                    \o (IF ok3 THEN <<>> ELSE <<"cta">>)
                    \o (IF ok4 THEN <<>> ELSE <<"spam">>),
         word_count |-> word_count,
         personalization_count |-> personalization_count]

(***************************************************************************)
(* Leads, campaigns and the runs of process_lead                           *)
(***************************************************************************)
\* rows the campaigns table may hold before the invocation starts
MaxStored == 1

\* the process_lead invocation followed here
Tasks == {1}

\* the stored leads: 1 has a LinkedIn URL and a company, 2 only a company,
\* 3 only a LinkedIn URL, 4 neither
Leads == {1, 2, 3, 4}

HasLinkedin(l) == l \in {1, 3}

HasCompany(l) == l \in {1, 2}

min_personalization_score_half == F0_5

\* settings.min_personalization_score
min_personalization_score == F0_7

\* max_attempts of the refinement loop
max_attempts == 2

VARIABLES
    run,        \* per invocation: position, arguments, locals and the result dict
    leads,      \* the Lead objects of the session
    db_leads,   \* the committed lead rows
    campaigns,  \* the committed outreach_campaigns rows; the id is the index
    clock,      \* number of datetime.utcnow() readings made so far
    before,     \* the campaigns table as it was when the model starts
    batch,      \* the batch_process_leads call: position, arguments and locals
    intel,      \* an enrich_company_data call: position, sources' results, score
    http        \* the send_campaign requests made: their count, the last
                \* answer and, per campaign id, the dispatches they made

vars == <<run, leads, db_leads, campaigns, clock, before, batch, intel, http>>

\* kimi counts the requests _call_kimi sends to the API (line 56)
NoCalls == [scrape |-> 0, fetch |-> 0, activity |-> 0, company |-> 0,
            analyze |-> 0, generate |-> 0, kimi |-> 0, create |-> 0, send |-> 0]

NoCampaign == [id |-> 0, status |-> "none", sent_at |-> 0]

\* raised, exc, trace, drafts, requests, checks and calls record what happened
\* (requests: the arguments of each generate_personalized_email call); the
\* other fields are the arguments, locals and result keys of process_lead
\* (data: the keys of enrichment_data['data'])
IdleRun ==
    [pc |-> "idle", lead |-> 0, auto_send |-> FALSE,
     status |-> "none", campaign_id |-> 0, error |-> "",
     enrichment |-> "none", data |-> {}, analysis |-> NoAnalysis, email |-> NoEmail,
     quality_check |-> NoQualityCheck, attempt |-> 0, campaign |-> NoCampaign,
     raised |-> "none", exc |-> "", trace |-> <<>>, drafts |-> <<>>,
     requests |-> <<>>, checks |-> <<>>, calls |-> NoCalls]

NewLead ==
    [linkedin_profile_data |-> "none", recent_posts |-> "none",
     company_news |-> "none", last_enriched_at |-> 0,
     analysed |-> FALSE, relevance_score |-> F0_0]

\* lead 1 as an earlier invocation with the mock replies left it, and the
\* campaign that invocation stored, still ready or sent since
StoredAnalysis == ParsedAnalysis(TRUE, F0_92)

StoredLead ==
    [linkedin_profile_data |-> "profile", recent_posts |-> "activity",
     company_news |-> "news", last_enriched_at |-> 1,
     analysed |-> TRUE, relevance_score |-> F0_92]

StoredRow(sent_at) ==
    [lead_id |-> 1,
     subject_line |-> MockEmail.subject_line,
     email_body |-> MockEmail.email_body,
     personalization_elements |-> MockEmail.personalization_elements,
     analysis |-> StoredAnalysis,
     quality_check |-> QualityControl(MockEmail, StoredAnalysis),
     status |-> IF sent_at = 0 THEN "ready" ELSE "sent",
     sent_at |-> sent_at]

NoStatistics ==
    [total |-> 0, successful |-> 0, sent |-> 0, low_relevance |-> 0, failed |-> 0]

\* the arguments and locals of batch_process_leads: leads is the query's
\* result, value the semaphore's counter, holding the tasks inside the
\* `async with`, finished the tasks that have left it
\* the locals of enrich_company_data: web is what the three sources would
\* find, pending the gathered coroutines that have not returned yet,
\* recent_news the length of the list, funding_info whether it is a dict
\* (TRUE) or None
NoHiring == [is_hiring |-> FALSE, open_positions |-> 0]

IdleIntel ==
    [pc |-> "idle",
     web |-> [articles |-> 0, job_cards |-> 0, funding_news |-> 0, failing |-> {}],
     pending |-> {}, recent_news |-> 0, hiring_signals |-> NoHiring,
     funding_info |-> FALSE, trigger_score |-> F0_0]

\* no send_campaign request made yet; status_code is the answer to the
\* last request, id and row the campaign it named as the request found it
IdleHttp ==
    [calls |-> 0, status_code |-> 0, id |-> 0, row |-> NoCampaign,
     dispatched |-> [i \in 1..(MaxStored + 1) |-> 0]]

IdleBatch ==
    [pc |-> "idle", lead_ids |-> <<>>, auto_send |-> FALSE, max_concurrent |-> 0,
     leads |-> <<>>, value |-> 0, holding |-> {}, finished |-> {},
     results |-> <<>>, statistics |-> NoStatistics, error |-> ""]

Init ==
    /\ batch = IdleBatch
    /\ intel = IdleIntel
    /\ http = IdleHttp
    /\ run = [t \in Tasks |-> IdleRun]
    /\ \E n \in 0..MaxStored :
         /\ \E sent \in [1..n -> BOOLEAN] :
              campaigns = [i \in 1..n |-> StoredRow(IF sent[i] THEN i + 1 ELSE 0)]
         /\ leads = [l \in Leads |-> IF n > 0 /\ l = 1 THEN StoredLead ELSE NewLead]
         /\ clock = IF n > 0 THEN n + 1 ELSE 0
    /\ db_leads = leads
    /\ before = campaigns

\* an exception leaves the call made in `stage`
Raised(r, stage, message) == [r EXCEPT !.raised = stage, !.exc = message]

\* the except clause of process_lead, lines 126-130
ExceptReraise(r) == [r EXCEPT !.pc = "raised"]

Except(r) == [r EXCEPT !.pc = "done", !.status = "error", !.error = r.exc]

\* lines 51-58
StartRun(t, l, a) ==
    /\ run[t].pc = "idle"
    /\ run' = [run EXCEPT ![t] = [IdleRun EXCEPT !.pc = "enrich_profile",
                                                  !.lead = l, !.auto_send = a,
                                                  !.status = "processing"]]
    /\ UNCHANGED <<leads, db_leads, campaigns, clock, before, batch, intel, http>>

\* _enrich_lead_data up to the company lookup: scrape_profile returns a
\* profile or its error payload, get_recent_activity a list
\* lines 64-68 of process_lead
EnrichmentGateNoReturn(r) == [r EXCEPT !.pc = "analyze"]

EnrichmentGate(r) ==
    IF r.enrichment = "failed"
    THEN [r EXCEPT !.pc = "done", !.status = "enrichment_failed"]
    ELSE [r EXCEPT !.pc = "analyze"]

scrape_profile_reraising(fetched) ==
    [profile |-> IF fetched THEN "profile" ELSE "none",
     requests |-> IF fetched THEN 1 ELSE 3,
     raised |-> ~fetched]

\* scrape_profile, linkedin_scraper.py lines 75-112: one GET of the profile
\* page; the except clause at line 106 returns the error payload for every
\* failure, so that the retry decorator at line 75 never sees an exception
scrape_profile(fetched) ==
    [profile |-> IF fetched THEN "profile" ELSE "error_payload",
     requests |-> 1,
     raised |-> FALSE]

EnrichProfile(t) ==
    /\ run[t].pc = "enrich_profile"
    /\ LET l == run[t].lead
       IN  IF HasLinkedin(l)
           THEN \E fetched \in BOOLEAN :
                  LET scraped == scrape_profile(fetched)
                      r == [run[t] EXCEPT
                              !.trace = Append(@, "enrichment"),
                              !.calls.scrape = @ + 1,
                              !.calls.fetch = @ + scraped.requests]
                  IN  IF scraped.raised
                      THEN /\ run' = [run EXCEPT ![t] =
                                        EnrichmentGate(
                                          [Raised(r, "enrichment", "RetryError")
                                             EXCEPT !.enrichment = "failed",
                                                    !.data = {}])]
                           /\ UNCHANGED leads
                      ELSE /\ run' = [run EXCEPT ![t] =
                                        [r EXCEPT
                                           !.pc = "enrich_company",
                                           !.calls.activity = @ + 1,
                                           !.data = @ \cup {"linkedin_profile",
                                                            "recent_activity"}]]
                           /\ leads' = [leads EXCEPT
                                          ![l].linkedin_profile_data = scraped.profile,
                                          ![l].recent_posts = "activity"]
           ELSE /\ run' = [run EXCEPT ![t].pc = "enrich_company",
                                      ![t].trace = Append(@, "enrichment")]
                /\ UNCHANGED leads
    /\ UNCHANGED <<db_leads, campaigns, clock, before, batch, intel, http>>

EnrichCompanyAlways(t) ==
    /\ run[t].pc = "enrich_company"
    /\ LET l == run[t].lead
       IN  IF TRUE
           THEN /\ run' = [run EXCEPT
                             ![t].pc = "enrich_commit",
                             ![t].calls.company = @ + 1,
                             ![t].data = @ \cup {"company_intelligence"}]
                /\ leads' = [leads EXCEPT ![l].company_news = "news"]
           ELSE /\ run' = [run EXCEPT ![t].pc = "enrich_commit"]
                /\ UNCHANGED leads
    /\ UNCHANGED <<db_leads, campaigns, clock, before, batch, intel, http>>

EnrichCompanyNeedsProfile(t) ==
    /\ run[t].pc = "enrich_company"
    /\ LET l == run[t].lead
       IN  IF HasCompany(l) /\ run[t].calls.scrape > 0
           THEN /\ run' = [run EXCEPT
                             ![t].pc = "enrich_commit",
                             ![t].calls.company = @ + 1,
                             ![t].data = @ \cup {"company_intelligence"}]
                /\ leads' = [leads EXCEPT ![l].company_news = "news"]
           ELSE /\ run' = [run EXCEPT ![t].pc = "enrich_commit"]
                /\ UNCHANGED leads
    /\ UNCHANGED <<db_leads, campaigns, clock, before, batch, intel, http>>

EnrichCompany(t) ==
    /\ run[t].pc = "enrich_company"
    /\ LET l == run[t].lead
       IN  IF HasCompany(l)
           THEN /\ run' = [run EXCEPT
                             ![t].pc = "enrich_commit",
                             ![t].calls.company = @ + 1,
                             ![t].data = @ \cup {"company_intelligence"}]
                /\ leads' = [leads EXCEPT ![l].company_news = "news"]
           ELSE /\ run' = [run EXCEPT ![t].pc = "enrich_commit"]
                /\ UNCHANGED leads
    /\ UNCHANGED <<db_leads, campaigns, clock, before, batch, intel, http>>

\* the end of _enrich_lead_data: the timestamp, the commit, and the except
\* clause of lines 171-177 when the commit raises
EnrichCommitUnsaved(t) ==
    /\ run[t].pc = "enrich_commit"
    /\ LET l == run[t].lead
       IN  /\ leads' = [leads EXCEPT ![l].last_enriched_at = clock + 1]
           /\ clock' = clock + 1
           /\ \/ /\ UNCHANGED db_leads
                 /\ run' = [run EXCEPT ![t] =
                              EnrichmentGate([run[t] EXCEPT !.enrichment = "success"])]
              \/ /\ UNCHANGED db_leads
                 /\ run' = [run EXCEPT ![t] =
                              EnrichmentGate([Raised(run[t], "enrichment", "commit")
                                                EXCEPT !.enrichment = "failed",
                                                       !.data = {}])]
    /\ UNCHANGED <<campaigns, before, batch, intel, http>>

EnrichCommit(t) ==
    /\ run[t].pc = "enrich_commit"
    /\ LET l == run[t].lead
       IN  /\ leads' = [leads EXCEPT ![l].last_enriched_at = clock + 1]
           /\ clock' = clock + 1
           /\ \/ /\ db_leads' = leads'
                 /\ run' = [run EXCEPT ![t] =
                              EnrichmentGate([run[t] EXCEPT !.enrichment = "success"])]
              \/ /\ UNCHANGED db_leads
                 /\ run' = [run EXCEPT ![t] =
                              EnrichmentGate([Raised(run[t], "enrichment", "commit")
                                                EXCEPT !.enrichment = "failed",
                                                       !.data = {}])]
    /\ UNCHANGED <<campaigns, before, batch, intel, http>>

\* lines 75-81 of process_lead, r being the run after _analyze_lead
RelevanceGateLe(r) ==
    IF ~FloatLess(min_personalization_score, GetRelevance(r.analysis))
    THEN [r EXCEPT !.pc = "done", !.status = "low_relevance"]
    ELSE [r EXCEPT !.pc = "generate"]

RelevanceGate(r) ==
    IF FloatLess(GetRelevance(r.analysis), min_personalization_score)
    THEN [r EXCEPT !.pc = "done", !.status = "low_relevance"]
    ELSE [r EXCEPT !.pc = "generate"]

\* what _call_kimi and the parsing after it can give: an API error, JSON
\* that is no object (its .get raises AttributeError), text that is no
\* JSON, or a parsed object
Errors == {"kimi_api", "AttributeError"}

\* text that json.loads rejects raises JSONDecodeError inside the try block
NotJson == "JSONDecodeError"

AnalysisReplies ==
    {[message |-> m, analysis |-> NoAnalysis] : m \in Errors \cup {NotJson}}
    \cup {[message |-> "", analysis |-> a] : a \in ParsedAnalyses}

\* texts of a reply that is not JSON: a short one, and one of 120 words
\* that asks for a call and has none of the spam phrases
RawContents ==
    {FallbackEmail.email_body,
     [text |-> "pitch", words |-> 120, cta |-> TRUE, spam |-> FALSE]}

\* a reply that is not JSON carries its text in email_body
GenerationReplies ==
    {[message |-> m, email |-> NoEmail] : m \in Errors}
    \cup {[message |-> NotJson, email |-> [NoEmail EXCEPT !.email_body = content]] :
             content \in RawContents}
    \cup {[message |-> "", email |-> e] : e \in ParsedEmails}

\* the except clause of analyze_lead_profile, lines 203-209: only
\* json.JSONDecodeError is caught, every other exception leaves the function
AnalysisResult(reply) ==
    IF reply.message = NotJson
    THEN [message |-> "", analysis |-> FallbackAnalysis]
    ELSE reply

\* the except clause of generate_personalized_email, lines 303-310: the
\* subject is "Quick question about your work at " + lead_data.get('company', ''),
\* and _generate_email always passes the key 'company', None for a record
\* without company, so that the concatenation raises TypeError in the handler
EmailResult(l, reply) ==
    IF reply.message = NotJson
    THEN IF HasCompany(l)
         THEN [message |-> "",
               email |-> [FallbackEmail EXCEPT !.email_body = reply.email.email_body]]
         ELSE [message |-> "TypeError", email |-> NoEmail]
    ELSE reply

\* _analyze_lead with analyze_lead_profile, then the relevance check
Analyze(t) ==
    /\ run[t].pc = "analyze"
    /\ LET l == run[t].lead
           r == [run[t] EXCEPT !.trace = Append(@, "analysis"),
                               !.calls.analyze = @ + 1,
                               !.calls.kimi = @ + 1]
       IN  \E reply \in {AnalysisResult(o) : o \in AnalysisReplies} :
             IF reply.message # ""
             THEN /\ run' = [run EXCEPT ![t] =
                               Except(Raised(r, "analysis", reply.message))]
                  /\ UNCHANGED <<leads, db_leads>>
             ELSE /\ leads' = [leads EXCEPT
                                 ![l].analysed = TRUE,
                                 ![l].relevance_score = GetRelevance(reply.analysis)]
                  /\ \/ /\ db_leads' = leads'
                        /\ run' = [run EXCEPT ![t] =
                                     RelevanceGate([r EXCEPT !.analysis = reply.analysis])]
                     \/ /\ UNCHANGED db_leads
                        /\ run' = [run EXCEPT ![t] =
                                     Except(Raised(r, "analysis", "commit"))]
    /\ UNCHANGED <<campaigns, clock, before, batch, intel, http>>

\* line 96 of process_lead with the reply of generate_personalized_email
GeneratedRetry(r, reply) ==
    IF reply.message # ""
    THEN [r EXCEPT !.raised = "generation", !.exc = reply.message]
    ELSE [r EXCEPT !.pc = "quality", !.email = reply.email,
                   !.drafts = Append(@, reply.email)]

Generated(r, reply) ==
    IF reply.message # ""
    THEN Except(Raised(r, "generation", reply.message))
    ELSE [r EXCEPT !.pc = "quality", !.email = reply.email,
                   !.drafts = Append(@, reply.email)]

\* the arguments _generate_email hands to generate_personalized_email,
\* lines 216-228: the lead's name, company and job title, the analysis, and
\* the company_context and value_proposition that process_lead was given
RequestWithFeedback(r) ==
    [lead |-> r.lead, analysis |-> r.analysis,
     company_context |-> <<"company_context">> \o r.quality_check.issues,
     value_proposition |-> "value_proposition", email_goal |-> "schedule_call"]

Request(r) ==
    [lead |-> r.lead, analysis |-> r.analysis,
     company_context |-> <<"company_context">>,
     value_proposition |-> "value_proposition", email_goal |-> "schedule_call"]

Generate(t) ==
    /\ run[t].pc = "generate"
    /\ \E reply \in GenerationReplies :
         run' = [run EXCEPT ![t] =
                   Generated([run[t] EXCEPT !.trace = Append(@, "generation"),
                                            !.calls.generate = @ + 1,
                                            !.calls.kimi = @ + 1,
                                            !.requests = Append(@, Request(run[t]))],
                             EmailResult(run[t].lead, reply))]
    /\ UNCHANGED <<leads, db_leads, campaigns, clock, before, batch, intel, http>>

\* lines 97-103: the evaluation of the draft and the loop's exit test
LoopStepNoBreak(r) ==
    LET quality_check == QualityControl(r.email, r.analysis)
        attempt == r.attempt + 1
    IN  [r EXCEPT !.quality_check = quality_check,
                  !.attempt = attempt,
                  !.checks = Append(@, quality_check),
                  !.trace = Append(@, "quality"),
                  !.pc = IF attempt >= max_attempts THEN "persist" ELSE "generate"]

LoopStepKeepBest(r) ==
    LET quality_check == QualityControl(r.email, r.analysis)
        attempt == r.attempt + 1
    IN  [r EXCEPT !.quality_check =
                      IF FloatLess(quality_check.quality_score, @.quality_score)
                      THEN @ ELSE quality_check,
                  !.attempt = attempt,
                  !.checks = Append(@, quality_check),
                  !.trace = Append(@, "quality"),
                  !.pc = IF FloatGe(quality_check.quality_score, F0_8)
                            \/ attempt >= max_attempts
                         THEN "persist" ELSE "generate"]

LoopStepBreakOnPasses(r) ==
    LET quality_check == QualityControl(r.email, r.analysis)
        attempt == r.attempt + 1
    IN  [r EXCEPT !.quality_check = quality_check,
                  !.attempt = attempt,
                  !.checks = Append(@, quality_check),
                  !.trace = Append(@, "quality"),
                  !.pc = IF quality_check.passes_qa \/ attempt >= max_attempts
                         THEN "persist" ELSE "generate"]

LoopStepLenient(r) ==
    LET first == QualityControl(r.email, r.analysis)
        quality_check == IF r.attempt = 0 THEN first
                         ELSE [first EXCEPT !.issues = <<>>]
        attempt == r.attempt + 1
    IN  [r EXCEPT !.quality_check = quality_check,
                  !.attempt = attempt,
                  !.checks = Append(@, quality_check),
                  !.trace = Append(@, "quality"),
                  !.pc = IF FloatGe(quality_check.quality_score, F0_8)
                            \/ attempt >= max_attempts
                         THEN "persist" ELSE "generate"]

LoopStep(r) ==
    LET quality_check == QualityControl(r.email, r.analysis)
        attempt == r.attempt + 1
    IN  [r EXCEPT !.quality_check = quality_check,
                  !.attempt = attempt,
                  !.checks = Append(@, quality_check),
                  !.trace = Append(@, "quality"),
                  !.pc = IF FloatGe(quality_check.quality_score, F0_8)
                            \/ attempt >= max_attempts
                         THEN "persist" ELSE "generate"]

QualityStoresScore(t) ==
    /\ run[t].pc = "quality"
    /\ run' = [run EXCEPT ![t] = LoopStep(run[t])]
    /\ leads' = [leads EXCEPT ![run[t].lead].relevance_score =
                                 LoopStep(run[t]).quality_check.quality_score]
    /\ UNCHANGED <<db_leads, campaigns, clock, before, batch, intel, http>>

Quality(t) ==
    /\ run[t].pc = "quality"
    /\ run' = [run EXCEPT ![t] = LoopStep(run[t])]
    /\ UNCHANGED <<leads, db_leads, campaigns, clock, before, batch, intel, http>>

\* the row _create_campaign builds, lines 303-315
CampaignRowDefaultStatus(r) ==
    [lead_id |-> r.lead,
     subject_line |-> r.email.subject_line,
     email_body |-> r.email.email_body,
     personalization_elements |->
         IF "personalization_elements" \in r.email.keys
         THEN r.email.personalization_elements ELSE 0,
     analysis |-> r.analysis,
     quality_check |-> r.quality_check,
     status |-> "pending",
     sent_at |-> 0]

CampaignRow(r) ==
    [lead_id |-> r.lead,
     subject_line |-> r.email.subject_line,
     email_body |-> r.email.email_body,
     personalization_elements |->
         IF "personalization_elements" \in r.email.keys
         THEN r.email.personalization_elements ELSE 0,
     analysis |-> r.analysis,
     quality_check |-> r.quality_check,
     status |-> "ready",
     sent_at |-> 0]

\* lines 111-121 of process_lead, r being the run after _create_campaign
SendGateRetry(r) ==
    IF r.auto_send /\ FloatGe(r.quality_check.quality_score, F0_8)
    THEN [r EXCEPT !.pc = "send", !.status = "ready"]
    ELSE IF FloatLess(r.quality_check.quality_score, F0_8)
    THEN [r EXCEPT !.pc = "generate", !.status = "ready"]
    ELSE [r EXCEPT !.pc = "done", !.status = "pending_review"]

SendGateAutoOnly(r) ==
    IF r.auto_send
    THEN [r EXCEPT !.pc = "send", !.status = "ready"]
    ELSE [r EXCEPT !.pc = "done", !.status = "pending_review"]

SendGateLeavesReady(r) ==
    IF r.auto_send /\ FloatGe(r.quality_check.quality_score, F0_8)
    THEN [r EXCEPT !.pc = "send", !.status = "ready"]
    ELSE [r EXCEPT !.pc = "done", !.status = "ready"]

SendGateWithoutId(r) ==
    IF r.auto_send /\ FloatGe(r.quality_check.quality_score, F0_8)
    THEN [r EXCEPT !.pc = "send", !.status = "ready"]
    ELSE [r EXCEPT !.pc = "done", !.status = "pending_review", !.campaign_id = 0]

SendGateQualityOnly(r) ==
    IF FloatGe(r.quality_check.quality_score, F0_8)
    THEN [r EXCEPT !.pc = "send", !.status = "ready"]
    ELSE [r EXCEPT !.pc = "done", !.status = "pending_review"]

SendGate(r) ==
    IF r.auto_send /\ FloatGe(r.quality_check.quality_score, F0_8)
    THEN [r EXCEPT !.pc = "send", !.status = "ready"]
    ELSE [r EXCEPT !.pc = "done", !.status = "pending_review"]

\* _create_campaign (a missing key raises before the row is added; the
\* commit or the refresh after it may raise), then the send decision
Persist(t) ==
    /\ run[t].pc = "persist"
    /\ LET r == [run[t] EXCEPT !.trace = Append(@, "persist")]
           id == Len(campaigns) + 1
           row == CampaignRow(r)
       IN  IF ~({"subject_line", "email_body"} \subseteq r.email.keys)
           THEN /\ run' = [run EXCEPT ![t] = Except(Raised(r, "persist", "KeyError"))]
                /\ UNCHANGED campaigns
           ELSE LET added == [r EXCEPT !.calls.create = @ + 1]
                IN  \/ /\ campaigns' = Append(campaigns, row)
                       /\ run' = [run EXCEPT ![t] =
                                    SendGate([added EXCEPT
                                        !.campaign = [id |-> id, status |-> row.status,
                                                      sent_at |-> row.sent_at],
                                        !.campaign_id = id])]
                    \/ /\ campaigns' = Append(campaigns, row)
                       /\ run' = [run EXCEPT ![t] =
                                    Except(Raised(added, "persist", "refresh"))]
                    \/ /\ UNCHANGED campaigns
                       /\ run' = [run EXCEPT ![t] =
                                    Except(Raised(added, "persist", "commit"))]
    /\ UNCHANGED <<leads, db_leads, clock, before, batch, intel, http>>

\* lines 337-338 of _send_email, on the campaign object
MarkSentNoStamp(campaign, now) == [campaign EXCEPT !.status = "sent"]

MarkSent(campaign, now) == [campaign EXCEPT !.status = "sent", !.sent_at = now]

\* _send_email (loading campaign.lead may raise, and so may the commit),
\* then lines 118-119 of process_lead
Send(t) ==
    /\ run[t].pc = "send"
    /\ LET r == [run[t] EXCEPT !.trace = Append(@, "dispatch"),
                               !.calls.send = @ + 1]
           id == r.campaign.id
           sent == [r EXCEPT !.campaign = MarkSent(@, clock + 1)]
       IN  \/ /\ run' = [run EXCEPT ![t] = Except(Raised(r, "dispatch", "lead_load"))]
              /\ UNCHANGED <<campaigns, clock>>
           \/ /\ clock' = clock + 1
              /\ \/ /\ campaigns' = [campaigns EXCEPT
                                       ![id].status = sent.campaign.status,
                                       ![id].sent_at = sent.campaign.sent_at]
                    /\ run' = [run EXCEPT ![t] = [sent EXCEPT !.pc = "done",
                                                              !.status = "sent"]]
                 \/ /\ UNCHANGED campaigns
                    /\ run' = [run EXCEPT ![t] =
                                 Except(Raised(sent, "dispatch", "commit"))]
    /\ UNCHANGED <<leads, db_leads, before, batch, intel, http>>

Next ==
    \E t \in Tasks :
        \/ \E l \in Leads, a \in BOOLEAN : StartRun(t, l, a)
        \/ EnrichProfile(t)
        \/ EnrichCompany(t)
        \/ EnrichCommit(t)
        \/ Analyze(t)
        \/ Generate(t)
        \/ Quality(t)
        \/ Persist(t)
        \/ Send(t)

Spec == Init /\ [][Next]_vars

(***************************************************************************)
(* send_campaign                                                           *)
(***************************************************************************)
\* the number of send_campaign requests followed
MaxRequests == 2

\* POST /campaigns/{campaign_id}/send, main.py lines 255-277, with
\* _send_email: 404 for an unknown id, 400 for a campaign already sent,
\* otherwise the e-mail goes out (loading campaign.lead may raise before
\* it), the campaign is marked and the commit may raise, which the client
\* sees as 500.  The requests are followed once the invocations of
\* process_lead have returned.
SendCampaign(campaign_id) ==
    /\ \A t \in DOMAIN run : run[t].pc = "done"
    /\ http.calls < MaxRequests
    /\ LET asked == [http EXCEPT !.calls = @ + 1, !.id = campaign_id,
                                 !.row = IF campaign_id \in DOMAIN campaigns
                                         THEN [id |-> campaign_id,
                                               status |-> campaigns[campaign_id].status,
                                               sent_at |-> campaigns[campaign_id].sent_at]
                                         ELSE NoCampaign]
       IN  IF campaign_id \notin DOMAIN campaigns
           THEN /\ http' = [asked EXCEPT !.status_code = 404]
                /\ UNCHANGED <<campaigns, clock>>
           ELSE IF campaigns[campaign_id].status = "sent"
           THEN /\ http' = [asked EXCEPT !.status_code = 400]
                /\ UNCHANGED <<campaigns, clock>>
           ELSE \/ /\ http' = [asked EXCEPT !.status_code = 500]
                   /\ UNCHANGED <<campaigns, clock>>
                \/ LET sent == MarkSent(asked.row, clock + 1)
                       out == [asked EXCEPT !.dispatched[campaign_id] = @ + 1]
                   IN  /\ clock' = clock + 1
                       /\ \/ /\ campaigns' = [campaigns EXCEPT
                                                ![campaign_id].status = sent.status,
                                                ![campaign_id].sent_at = sent.sent_at]
                             /\ http' = [out EXCEPT !.status_code = 200]
                          \/ /\ UNCHANGED campaigns
                             /\ http' = [out EXCEPT !.status_code = 500]
    /\ UNCHANGED <<run, leads, db_leads, before, batch, intel>>

SendNext ==
    \/ Next
    \/ \E campaign_id \in 1..(MaxStored + 1) : SendCampaign(campaign_id)

SendSpec == Init /\ [][SendNext]_vars

(***************************************************************************)
(* batch_process_leads                                                     *)
(***************************************************************************)
\* ids a batch may be called with (9 is the id of no stored lead), the
\* longest list of ids and the largest max_concurrent followed; the lists
\* are taken in ascending order, the query of line 371 being insensitive to
\* the order of the ids
BatchIds == {1, 2, 4, 9}

MaxIds == 2

MaxConcurrent == 2

RECURSIVE Ascending(_)
Ascending(S) ==
    IF S = {} THEN <<>>
    ELSE LET m == CHOOSE x \in S : \A y \in S : x <= y
         IN  <<m>> \o Ascending(S \ {m})

\* db.query(Lead).filter(Lead.id.in_(lead_ids)).all(), line 371
Query(lead_ids) ==
    Ascending({l \in Leads : \E i \in 1..Len(lead_ids) : lead_ids[i] = l})

BatchInit ==
    /\ batch = IdleBatch
    /\ intel = IdleIntel
    /\ http = IdleHttp
    /\ run = <<>>
    /\ campaigns = <<>>
    /\ leads = [l \in Leads |-> NewLead]
    /\ clock = 0
    /\ db_leads = leads
    /\ before = campaigns

\* lines 371-389 up to the creation of the tasks by gather
BatchCall(lead_ids, auto_send, max_concurrent) ==
    /\ batch.pc = "idle"
    /\ batch' = [IdleBatch EXCEPT !.pc = "gather", !.lead_ids = lead_ids,
                                  !.auto_send = auto_send,
                                  !.max_concurrent = max_concurrent,
                                  !.leads = Query(lead_ids),
                                  !.value = max_concurrent]
    /\ run' = [t \in 1..Len(Query(lead_ids)) |-> IdleRun]
    /\ UNCHANGED <<leads, db_leads, campaigns, clock, before, intel, http>>

\* A task keeps the event loop until it awaits something that suspends:
\* the only such await of process_lead is the gather inside
\* enrich_company_data (company_intelligence.py line 258), reached when
\* the lead has a company; the scraper and the Kimi client are synchronous.
Suspended(t) == run[t].pc = "enrich_company" /\ HasCompany(run[t].lead)

HoldsLoop(t) == t \in batch.holding /\ ~Suspended(t)

Turn(t) == \A u \in DOMAIN run : u # t => ~HoldsLoop(u)

\* `async with semaphore`, line 377: Semaphore.acquire
AcquireNoLimit(t) ==
    /\ batch.pc = "gather"
    /\ t \in DOMAIN run
    /\ t \notin batch.holding \cup batch.finished
    /\ Turn(t)
    /\ batch' = [batch EXCEPT !.value = @ - 1, !.holding = @ \cup {t}]
    /\ UNCHANGED <<run, leads, db_leads, campaigns, clock, before, intel, http>>

Acquire(t) ==
    /\ batch.pc = "gather"
    /\ t \in DOMAIN run
    /\ t \notin batch.holding \cup batch.finished
    /\ Turn(t)
    /\ batch.value > 0
    /\ batch' = [batch EXCEPT !.value = @ - 1, !.holding = @ \cup {t}]
    /\ UNCHANGED <<run, leads, db_leads, campaigns, clock, before, intel, http>>

\* the session has committed (or rolled back) since the query, so that the
\* Lead objects are expired and reading an attribute loads the row again
Expired == \E u \in DOMAIN run : run[u].enrichment # "none"

\* lines 51-58 of process_lead run outside its try block: lead.name,
\* lead.email and lead.id are read, and the load of an expired row may raise
BatchStart(t) ==
    /\ t \in batch.holding
    /\ run[t].pc = "idle"
    /\ Turn(t)
    /\ \/ StartRun(t, batch.leads[t], batch.auto_send)
       \/ /\ Expired
          /\ run' = [run EXCEPT ![t] = [IdleRun EXCEPT !.pc = "raised",
                                                        !.lead = batch.leads[t],
                                                        !.exc = "lead_load"]]
          /\ UNCHANGED <<leads, db_leads, campaigns, clock, before, batch, intel, http>>

\* the replies a batch is followed with: the mock analysis or one of low
\* relevance, the mock e-mail, a Kimi API error in the analysis, a commit
\* that raises in the enrichment stage
BatchAnalyses == {NoAnalysis, ParsedAnalysis(TRUE, F0_92), ParsedAnalysis(TRUE, F0_4)}

Followed(r) ==
    /\ r.analysis \in BatchAnalyses
    /\ r.email \in {NoEmail, MockEmail}
    /\ \/ r.raised = "none"
       \/ r.raised = "enrichment"
       \/ r.raised = "analysis" /\ r.exc = "kimi_api"

\* one step of the process_lead of task t
Stage(t) ==
    /\ t \in batch.holding
    /\ Turn(t)
    /\ \/ EnrichProfile(t)
       \/ EnrichCompany(t)
       \/ EnrichCommit(t)
       \/ Analyze(t)
       \/ Generate(t)
       \/ Quality(t)
       \/ Persist(t)
       \/ Send(t)
    /\ Followed(run'[t])
    /\ \A l \in Leads : leads'[l].linkedin_profile_data # "error_payload"

\* the end of `async with semaphore`: Semaphore.release, whether
\* process_lead returned or raised
ReleaseCancelSiblings(t) ==
    /\ t \in batch.holding
    /\ run[t].pc \in {"done", "raised"}
    /\ batch' = [batch EXCEPT !.value = @ + 1, !.holding = @ \ {t},
                              !.finished = @ \cup {t}]
    /\ IF run[t].status \in {"error", "enrichment_failed"}
       THEN run' = [u \in DOMAIN run |->
                      IF u = t \/ run[u].pc \in {"done", "raised"} THEN run[u]
                      ELSE [run[u] EXCEPT !.pc = "done", !.status = "error",
                                          !.error = "CancelledError"]]
       ELSE UNCHANGED run
    /\ UNCHANGED <<leads, db_leads, campaigns, clock, before, intel, http>>

Release(t) ==
    /\ t \in batch.holding
    /\ run[t].pc \in {"done", "raised"}
    /\ batch' = [batch EXCEPT !.value = @ + 1, !.holding = @ \ {t},
                              !.finished = @ \cup {t}]
    /\ UNCHANGED <<run, leads, db_leads, campaigns, clock, before, intel, http>>

\* what gather(..., return_exceptions=True) puts in the list for a task
Outcome(r) ==
    [exception |-> r.pc = "raised", lead_id |-> r.lead, status |-> r.status,
     campaign_id |-> r.campaign_id, error |-> r.error]

Count(results, statuses) ==
    Cardinality({i \in 1..Len(results) : results[i].status \in statuses})

\* lines 392-398
StatisticsPendingSuccessful(results) ==
    [total |-> Len(results),
     successful |-> Count(results, {"ready", "sent", "pending_review"}),
     sent |-> Count(results, {"sent"}),
     low_relevance |-> Count(results, {"low_relevance"}),
     failed |-> Count(results, {"error", "enrichment_failed"})]

StatisticsLowFailed(results) ==
    [total |-> Len(results),
     successful |-> Count(results, {"ready", "sent"}),
     sent |-> Count(results, {"sent"}),
     low_relevance |-> Count(results, {"low_relevance"}),
     failed |-> Count(results, {"error", "enrichment_failed", "low_relevance"})]

Statistics(results) ==
    [total |-> Len(results),
     successful |-> Count(results, {"ready", "sent"}),
     sent |-> Count(results, {"sent"}),
     low_relevance |-> Count(results, {"low_relevance"}),
     failed |-> Count(results, {"error", "enrichment_failed"})]

\* lines 386-405: gather has every result; r.get on a captured exception
\* raises AttributeError while the statistics are compiled
BatchReturn ==
    /\ batch.pc = "gather"
    /\ batch.finished = DOMAIN run
    /\ LET results == [t \in DOMAIN run |-> Outcome(run[t])]
       IN  IF \E t \in DOMAIN results : results[t].exception
           THEN batch' = [batch EXCEPT !.pc = "raised", !.results = results,
                                      !.error = "AttributeError"]
           ELSE batch' = [batch EXCEPT !.pc = "done", !.results = results,
                                      !.statistics = Statistics(results)]
    /\ UNCHANGED <<run, leads, db_leads, campaigns, clock, before, intel, http>>

BatchNext ==
    \/ \E n \in 0..MaxIds, a \in BOOLEAN, m \in 0..MaxConcurrent :
         \E lead_ids \in [1..n -> BatchIds] :
             /\ \A i \in 1..(n - 1) : lead_ids[i] <= lead_ids[i + 1]
             /\ BatchCall(lead_ids, a, m)
    \/ \E t \in DOMAIN run :
         \/ Acquire(t)
         \/ BatchStart(t)
         \/ Stage(t)
         \/ Release(t)
    \/ BatchReturn

BatchSpec == BatchInit /\ [][BatchNext]_vars

(***************************************************************************)
(* enrich_company_data                                                     *)
(***************************************************************************)
\* the most articles, job cards and funding articles the sources find in
\* the runs followed
MaxNews == 6

MaxCards == 6

MaxFunding == 1

Sources == {"news", "hiring", "funding"}

\* get_company_news, lines 28-118: the list of articles found, [] when the
\* request or the parsing raises
get_company_news(web) ==
    IF "news" \in web.failing THEN 0 ELSE web.articles

\* check_hiring_signals, lines 120-161: company_intelligence.py does not
\* import re, so re.compile at line 138 raises NameError whenever the
\* request before it did not raise; the except clause answers either way
check_hiring_signals(web) == [is_hiring |-> FALSE, open_positions |-> 0]

\* get_funding_info, lines 163-193: a dict when an article's title has a
\* funding keyword, None otherwise and when something raises
get_funding_info(web) ==
    IF "funding" \in web.failing THEN FALSE ELSE web.funding_news > 0

\* lines 272-281
TriggerScoreFromFive(company_data) ==
    LET s0 == F0_0
        s1 == IF company_data.funding_info THEN FloatAdd(s0, F0_4) ELSE s0
        s2 == IF company_data.hiring_signals.open_positions >= 5
              THEN FloatAdd(s1, F0_3) ELSE s1
        s3 == IF company_data.recent_news >= 5 THEN FloatAdd(s2, F0_2) ELSE s2
    IN  s3

TriggerScore(company_data) ==
    LET s0 == F0_0
        s1 == IF company_data.funding_info THEN FloatAdd(s0, F0_4) ELSE s0
        s2 == IF company_data.hiring_signals.open_positions > 5
              THEN FloatAdd(s1, F0_3) ELSE s1
        s3 == IF company_data.recent_news > 5 THEN FloatAdd(s2, F0_2) ELSE s2
    IN  s3

IntelInit ==
    /\ intel = IdleIntel
    /\ http = IdleHttp
    /\ batch = IdleBatch
    /\ run = <<>>
    /\ campaigns = <<>>
    /\ leads = [l \in Leads |-> NewLead]
    /\ clock = 0
    /\ db_leads = leads
    /\ before = campaigns

\* lines 244-258: the three coroutines are handed to gather
EnrichCompanyData(web) ==
    /\ intel.pc = "idle"
    /\ intel' = [intel EXCEPT !.pc = "gather", !.web = web, !.pending = Sources]
    /\ UNCHANGED <<run, leads, db_leads, campaigns, clock, before, batch, http>>

\* the gathered coroutines return in any order; lines 263-265 keep a
\* result that is no exception
GetCompanyNews ==
    /\ intel.pc = "gather"
    /\ "news" \in intel.pending
    /\ intel' = [intel EXCEPT !.pending = @ \ {"news"},
                              !.recent_news = get_company_news(intel.web)]
    /\ UNCHANGED <<run, leads, db_leads, campaigns, clock, before, batch, http>>

CheckHiringSignals ==
    /\ intel.pc = "gather"
    /\ "hiring" \in intel.pending
    /\ intel' = [intel EXCEPT !.pending = @ \ {"hiring"},
                              !.hiring_signals = check_hiring_signals(intel.web)]
    /\ UNCHANGED <<run, leads, db_leads, campaigns, clock, before, batch, http>>

GetFundingInfo ==
    /\ intel.pc = "gather"
    /\ "funding" \in intel.pending
    /\ intel' = [intel EXCEPT !.pending = @ \ {"funding"},
                              !.funding_info = get_funding_info(intel.web)]
    /\ UNCHANGED <<run, leads, db_leads, campaigns, clock, before, batch, http>>

\* lines 260-284, once gather has every result
IntelReturn ==
    /\ intel.pc = "gather"
    /\ intel.pending = {}
    /\ intel' = [intel EXCEPT !.pc = "done", !.trigger_score = TriggerScore(intel)]
    /\ UNCHANGED <<run, leads, db_leads, campaigns, clock, before, batch, http>>

IntelNext ==
    \/ \E articles \in 0..MaxNews, job_cards \in 0..MaxCards,
          funding_news \in 0..MaxFunding, failing \in SUBSET Sources :
            EnrichCompanyData([articles |-> articles, job_cards |-> job_cards,
                               funding_news |-> funding_news, failing |-> failing])
    \/ GetCompanyNews
    \/ CheckHiringSignals
    \/ GetFundingInfo
    \/ IntelReturn

IntelSpec == IntelInit /\ [][IntelNext]_vars

(***************************************************************************)
(* _quality_control on its own: any draft, any relevance between 0 and 1   *)
(***************************************************************************)
\* relevance_score values an analysis can carry, the ends of [0, 1] included
Relevances == {F0_0, F0_1, F0_4, F0_5, F0_7, F0_92, F1_0}

\* drafts on both sides of each of the four checks
Drafts ==
    {[keys |-> {"subject_line", "email_body", "personalization_elements"},
      subject_line |-> "subject",
      email_body |-> [text |-> "draft", words |-> w, cta |-> c, spam |-> p],
      personalization_elements |-> n] :
        n \in {0, 2, 3, 4}, w \in {0, 49, 50, 200, 201},
        c \in BOOLEAN, p \in BOOLEAN}

QualityInit ==
    /\ \E email \in Drafts :
       \E analysis \in {ParsedAnalysis(TRUE, s) : s \in Relevances}
                        \cup {ParsedAnalysis(FALSE, F0_0)} :
            run = [t \in Tasks |-> [IdleRun EXCEPT !.pc = "quality_control",
                                                   !.email = email,
                                                   !.analysis = analysis]]
    /\ batch = IdleBatch
    /\ intel = IdleIntel
    /\ http = IdleHttp
    /\ campaigns = <<>>
    /\ leads = [l \in Leads |-> NewLead]
    /\ clock = 0
    /\ db_leads = leads
    /\ before = campaigns

\* lines 244-292: the report for the draft and the analysis
QualityControlCall(t) ==
    /\ run[t].pc = "quality_control"
    /\ run' = [run EXCEPT
                 ![t].quality_check = QualityControl(run[t].email, run[t].analysis),
                 ![t].pc = "evaluated"]
    /\ UNCHANGED <<leads, db_leads, campaigns, clock, before, batch, intel, http>>

QualityNext == \E t \in Tasks : QualityControlCall(t)

QualitySpec == QualityInit /\ [][QualityNext]_vars

(***************************************************************************)
(* Properties                                                              *)
(***************************************************************************)
Score(r) == r.quality_check.quality_score

Accepted(check) == FloatGe(check.quality_score, F0_8)

Stages(r) == {r.trace[i] : i \in 1..Len(r.trace)}

LastStage(r) == IF r.trace = <<>> THEN "none" ELSE r.trace[Len(r.trace)]

Rank(stage) ==
    CASE stage = "enrichment" -> 1
      [] stage = "analysis" -> 2
      [] stage \in {"generation", "quality"} -> 3
      [] stage = "persist" -> 4
      [] stage = "dispatch" -> 5

\* rows added to the campaigns table since the model started
NewRows == (Len(before) + 1)..Len(campaigns)

\* C1: the stages of an invocation run in the order enrichment, analysis,
\* generation/quality attempts, persistence, dispatch: the run never goes
\* back, only generation and quality repeat, and a stage has started only
\* if the one before it has completed.
C1_StageOrder ==
    \A t \in Tasks :
        LET r == run[t]
            tr == r.trace
        IN  /\ \A i, j \in 1..Len(tr) :
                  i < j => /\ Rank(tr[i]) <= Rank(tr[j])
                           /\ tr[i] = tr[j] => tr[i] \in {"generation", "quality"}
            /\ \A i \in 1..Len(tr) :
                  /\ Rank(tr[i]) > 1 => \E j \in 1..(i - 1) : Rank(tr[j]) = Rank(tr[i]) - 1
                  /\ tr[i] = "quality" => i > 1 /\ tr[i - 1] = "generation"
                  /\ tr[i] = "generation" => i > 1 /\ tr[i - 1] \in {"analysis", "quality"}
            /\ "analysis" \in Stages(r) => r.enrichment = "success"
            /\ "generation" \in Stages(r) => r.analysis.kind # "none"
            /\ "persist" \in Stages(r) => Len(r.checks) >= 1 /\ Len(r.drafts) = Len(r.checks)
            /\ "dispatch" \in Stages(r) => r.campaign.id # 0

C1_Witness ==
    \E t \in Tasks :
        /\ run[t].pc = "done"
        /\ run[t].trace = <<"enrichment", "analysis", "generation", "quality",
                            "generation", "quality", "persist", "dispatch">>

C3_EnrichmentFailed ==
    \A t \in Tasks :
        LET r == run[t]
        IN  r.raised = "enrichment" =>
                /\ r.pc = "done"
                /\ r.status = "enrichment_failed"
                /\ r.calls.analyze = 0
                /\ r.calls.generate = 0
                /\ r.calls.create = 0
                /\ campaigns = before

C3_Witness ==
    \E t \in Tasks :
        /\ run[t].raised = "enrichment"
        /\ run[t].pc = "done"
        /\ HasCompany(run[t].lead)

\* C4: once the analysis stage has returned, the status is low_relevance
\* exactly when the relevance score is strictly below the configured
\* minimum, a missing score counting as 0; a low_relevance invocation has
\* ended without a generation call and without a campaign row.
C4_LowRelevance ==
    \A t \in Tasks :
        LET r == run[t]
            score == IF r.analysis.has_score THEN r.analysis.relevance_score ELSE F0_0
        IN  /\ r.analysis.kind # "none" =>
                  /\ (r.status = "low_relevance") <=> FloatLess(score, F0_7)
                  /\ ~r.analysis.has_score => r.status = "low_relevance"
            /\ r.status = "low_relevance" =>
                  /\ r.pc = "done"
                  /\ r.enrichment = "success"
                  /\ r.analysis.kind # "none"
                  /\ r.calls.generate = 0
                  /\ r.calls.create = 0
                  /\ campaigns = before

C4_Witness ==
    \E t \in Tasks :
        /\ run[t].status = "low_relevance"
        /\ run[t].analysis.has_score
        /\ run[t].analysis.relevance_score = F0_4

C6_PendingReviewStored ==
    \A t \in Tasks :
        LET r == run[t]
        IN  r.status = "pending_review" =>
                /\ r.pc = "done"
                /\ "persist" \in Stages(r)
                /\ r.campaign_id \in NewRows
                /\ campaigns[r.campaign_id].status = "ready"
                /\ campaigns[r.campaign_id].lead_id = r.lead
                /\ r.calls.send = 0

C6_Witness ==
    \E t \in Tasks :
        /\ run[t].status = "pending_review"
        /\ run[t].campaign_id = 2
        /\ run[t].auto_send

\* C7: when the status is sent, the row the invocation created, ready when
\* the dispatch started, has status sent and a sent_at; every campaign, row
\* or object, with status sent has a sent_at and one with status ready none.
C7_SentStamped ==
    /\ \A t \in Tasks :
          LET r == run[t]
          IN  /\ r.pc = "send" =>
                    /\ r.campaign.id \in NewRows
                    /\ campaigns[r.campaign.id].status = "ready"
              /\ r.status = "sent" =>
                    /\ r.campaign_id \in NewRows
                    /\ campaigns[r.campaign_id].status = "sent"
                    /\ campaigns[r.campaign_id].sent_at > 0
              /\ r.campaign.status = "sent" => r.campaign.sent_at > 0
              /\ r.campaign.status = "ready" => r.campaign.sent_at = 0
    /\ \A i \in 1..Len(campaigns) :
          /\ campaigns[i].status = "sent" => campaigns[i].sent_at > 0
          /\ campaigns[i].status = "ready" => campaigns[i].sent_at = 0

C7_Witness ==
    \E t \in Tasks :
        /\ run[t].status = "sent"
        /\ campaigns[run[t].campaign_id].status = "sent"

\* C8: the generation service is called at most twice per invocation, and
\* not again once an attempt has scored >= 0.80.
C8_BoundedAttempts ==
    \A t \in Tasks :
        LET r == run[t]
        IN  /\ r.calls.generate <= 2
            /\ \A i \in 1..Len(r.checks) :
                  Accepted(r.checks[i]) => r.calls.generate = i

C8_Witness ==
    \E t \in Tasks :
        /\ run[t].calls.generate = 2
        /\ Len(run[t].checks) = 2
        /\ ~Accepted(run[t].checks[1])
        /\ Accepted(run[t].checks[2])

\* C9: the draft and the quality check that leave the loop are those of one
\* attempt, the first that scored >= 0.80 or else the last of the two, and
\* the row stored afterwards holds that draft's subject and body and that
\* quality check.
C9_ChosenAttempt ==
    \A t \in Tasks :
        LET r == run[t]
            n == Len(r.checks)
            passing == {i \in 1..n : Accepted(r.checks[i])}
            k == IF passing # {} THEN CHOOSE i \in passing : \A j \in passing : i <= j
                 ELSE n
        IN  r.pc = "persist" \/ "persist" \in Stages(r) =>
                /\ n >= 1 /\ Len(r.drafts) = n
                /\ passing # {} \/ n = 2
                /\ r.email = r.drafts[k]
                /\ r.quality_check = r.checks[k]
                /\ \A i \in NewRows :
                      /\ campaigns[i].subject_line = r.drafts[k].subject_line
                      /\ campaigns[i].email_body = r.drafts[k].email_body
                      /\ campaigns[i].quality_check = r.checks[k]

C9_Witness ==
    \E t \in Tasks :
        /\ NewRows # {}
        /\ Len(run[t].drafts) = 2
        /\ run[t].drafts[1] = NearEmail
        /\ run[t].drafts[2] = FallbackEmail

\* C10: when the generation service raises in an attempt, that call is the
\* last one made: the invocation has ended with status error, no campaign
\* row was created and nothing was dispatched.
C10_GenerationRaise ==
    \A t \in Tasks :
        LET r == run[t]
        IN  r.raised = "generation" =>
                /\ r.pc = "done"
                /\ r.status = "error"
                /\ r.calls.generate = Len(r.drafts) + 1
                /\ LastStage(r) = "generation"
                /\ r.calls.create = 0
                /\ r.calls.send = 0
                /\ campaigns = before

C10_Witness ==
    \E t \in Tasks :
        /\ run[t].raised = "generation"
        /\ Len(run[t].drafts) = 1
        /\ run[t].exc = "kimi_api"

\* the five contributions of a draft to its quality score
Contributions(email, analysis) ==
    LET has(key) == key \in email.keys
    IN  <<IF has("personalization_elements") /\ email.personalization_elements >= 3
          THEN F0_3 ELSE F0_0,
          IF has("email_body") /\ email.email_body.words \in 50..200
          THEN F0_2 ELSE F0_0,
          IF has("email_body") /\ email.email_body.cta THEN F0_2 ELSE F0_0,
          IF has("email_body") /\ email.email_body.spam THEN F0_0 ELSE F0_2,
          FloatMul(IF analysis.has_score THEN analysis.relevance_score ELSE F0_0, F0_1)>>

\* C18: the quality score of every evaluated draft is the sum, accumulated
\* from 0.0 in the order of the checks, of its five contributions (0.3, 0.2,
\* 0.2, 0.2 for the checks that pass and relevance_score * 0.1); none is
\* negative, the evaluator running only for a relevance of at least 0.7.
C18_FiveContributions ==
    \A t \in Tasks :
        LET r == run[t]
        IN  \A i \in 1..Len(r.checks) :
                LET terms == Contributions(r.drafts[i], r.analysis)
                    sum1 == FloatAdd(F0_0, terms[1])
                    sum2 == FloatAdd(sum1, terms[2])
                    sum3 == FloatAdd(sum2, terms[3])
                    sum4 == FloatAdd(sum3, terms[4])
                    sum5 == FloatAdd(sum4, terms[5])
                IN  /\ Len(terms) = 5
                    /\ r.checks[i].quality_score = sum5
                    /\ \A k \in 1..5 : FloatGe(terms[k], F0_0)
                    /\ FloatGe(sum5, sum4) /\ FloatGe(sum4, sum3)
                    /\ FloatGe(sum3, sum2) /\ FloatGe(sum2, sum1)
                    /\ r.analysis.has_score
                    /\ FloatGe(r.analysis.relevance_score, F0_7)

C18_Witness ==
    \E t \in Tasks :
        /\ Len(run[t].checks) = 1
        /\ run[t].drafts[1] = NearEmail
        /\ run[t].analysis.relevance_score = F0_92
        /\ FloatLess(F0_7, run[t].checks[1].quality_score)
        /\ FloatLess(run[t].checks[1].quality_score, F0_8)

NoInputs(l) == ~HasLinkedin(l) /\ ~HasCompany(l)

\* C19 as stated: for a record with neither a profile reference nor an
\* organization the enrichment stage calls no enrichment collaborator,
\* reports success with an empty bundle and the run goes on to the analysis.
C19_Original ==
    \A t \in Tasks :
        LET r == run[t]
        IN  r.lead # 0 /\ NoInputs(r.lead) /\ r.pc \notin {"enrich_profile",
                                      "enrich_company", "enrich_commit"} =>
                /\ r.calls.scrape + r.calls.activity + r.calls.company = 0
                /\ r.enrichment = "success" /\ r.data = {}
                /\ "analysis" \in Stages(r) \/ r.pc = "analyze"

\* C19: for a record with neither a profile reference nor an organization
\* the enrichment stage calls no enrichment collaborator and its bundle is
\* empty; it reports success and the run goes on to the analysis unless the
\* commit of the last-enriched timestamp raises, which is its only failure.
C19_NoInputs ==
    \A t \in Tasks :
        LET r == run[t]
        IN  r.lead # 0 /\ NoInputs(r.lead) =>
                /\ r.calls.scrape + r.calls.activity + r.calls.company = 0
                /\ r.data = {}
                /\ leads[r.lead].linkedin_profile_data = "none"
                /\ leads[r.lead].company_news = "none"
                /\ r.pc \notin {"enrich_profile", "enrich_company", "enrich_commit"} =>
                      IF r.raised = "enrichment"
                      THEN r.exc = "commit" /\ r.status = "enrichment_failed"
                      ELSE /\ r.enrichment = "success"
                           /\ "analysis" \in Stages(r) \/ r.pc = "analyze"

C19_Witness ==
    \E t \in Tasks :
        /\ run[t].lead = 4
        /\ run[t].enrichment = "success"
        /\ run[t].pc = "analyze"

\* C20: the enrichment stage reports failed only when a call it made
\* raised; when it reports success the record holds a snapshot for every
\* input that was present and a new last-enriched timestamp, all committed;
\* a missing input is no failure.
C20_EnrichmentResult ==
    \A t \in Tasks :
        LET r == run[t]
            l == r.lead
        IN  /\ r.enrichment = "failed" \/ r.status = "enrichment_failed" =>
                  r.raised = "enrichment" /\ r.exc # ""
            /\ r.enrichment = "success" =>
                  /\ r.raised # "enrichment"
                  /\ HasLinkedin(l) => /\ leads[l].linkedin_profile_data # "none"
                                       /\ leads[l].recent_posts # "none"
                  /\ HasCompany(l) => leads[l].company_news # "none"
                  /\ leads[l].last_enriched_at > Len(before)
                  /\ db_leads[l].last_enriched_at = leads[l].last_enriched_at
                  /\ db_leads[l].linkedin_profile_data = leads[l].linkedin_profile_data
                  /\ db_leads[l].recent_posts = leads[l].recent_posts
                  /\ db_leads[l].company_news = leads[l].company_news
                  /\ r.data = (IF HasLinkedin(l)
                               THEN {"linkedin_profile", "recent_activity"} ELSE {})
                              \cup (IF HasCompany(l) THEN {"company_intelligence"} ELSE {})

C20_Witness ==
    \E t \in Tasks :
        /\ run[t].lead = 3
        /\ run[t].enrichment = "success"
        /\ leads[3].linkedin_profile_data = "profile"
        /\ leads[3].company_news = "none"
        /\ db_leads[3].last_enriched_at > 0

(***************************************************************************)
(* Properties of batch_process_leads                                       *)
(***************************************************************************)
\* the tasks whose process_lead has started and not finished
InFlight == {t \in DOMAIN run : run[t].pc \notin {"idle", "done", "raised"}}

WithStatus(statuses) == Cardinality({t \in DOMAIN run : run[t].status \in statuses})

\* C11: during a batch at most max_concurrent records are between the start
\* and the end of process_lead; a record in a stage holds a slot of the
\* semaphore, and the slots held never exceed max_concurrent.
C11_ConcurrencyLimit ==
    /\ Cardinality(InFlight) <= batch.max_concurrent
    /\ InFlight \subseteq batch.holding
    /\ Cardinality(batch.holding) <= batch.max_concurrent
    /\ batch.value = batch.max_concurrent - Cardinality(batch.holding)

C11_Witness ==
    /\ batch.max_concurrent = 1
    /\ batch.value = 0
    /\ \E t, u \in DOMAIN run :
          /\ Suspended(t) /\ t \in batch.holding
          /\ run[u].pc = "idle" /\ u \notin batch.holding

\* the terminal status the replies a record received give it when it is
\* processed alone
OwnStatus(r) ==
    IF r.raised = "enrichment" THEN "enrichment_failed"
    ELSE IF r.raised # "none" THEN "error"
    ELSE IF FloatLess(IF r.analysis.has_score THEN r.analysis.relevance_score ELSE F0_0,
                      F0_7)
    THEN "low_relevance"
    ELSE IF r.auto_send /\ Accepted(r.quality_check) THEN "sent"
    ELSE "pending_review"

C13_ReturnsDespiteException ==
    batch.pc \notin {"idle", "gather"} =>
        /\ batch.pc = "done"
        /\ Len(batch.results) = Len(batch.leads)
        /\ batch.statistics.total = Len(batch.results)

\* C14: the result list has one outcome per submitted id and
\* statistics.total is the number of submitted ids.
C14_OnePerId ==
    batch.pc = "done" =>
        /\ Len(batch.results) = Len(batch.lead_ids)
        /\ batch.statistics.total = Len(batch.lead_ids)

\* C15: successful counts the outcomes with status ready or sent, sent those
\* with status sent, low_relevance those with status low_relevance, failed
\* those with status error or enrichment_failed; pending_review and
\* send_failed outcomes are in none of the four.
C15_Statistics ==
    batch.pc = "done" =>
        LET s == batch.statistics
        IN  /\ s.successful = WithStatus({"ready", "sent"})
            /\ s.sent = WithStatus({"sent"})
            /\ s.low_relevance = WithStatus({"low_relevance"})
            /\ s.failed = WithStatus({"error", "enrichment_failed"})
            /\ s.successful + s.low_relevance + s.failed
                  = Len(batch.results) - WithStatus({"pending_review", "send_failed"})

C15_Witness ==
    /\ batch.pc = "done"
    /\ WithStatus({"pending_review"}) = 1
    /\ WithStatus({"error", "enrichment_failed"}) = 1
    /\ batch.statistics.successful = 0

\* the list without its i-th outcome
Without(results, i) ==
    [j \in 1..(Len(results) - 1) |-> IF j < i THEN results[j] ELSE results[j + 1]]

\* C16: every outcome is counted once: successful, low_relevance, failed
\* and the outcomes of any other status add up to total, sent is at most
\* successful, and a low_relevance outcome adds one to low_relevance and
\* nothing to successful or failed.
C16_Accounting ==
    batch.pc = "done" =>
        LET s == batch.statistics
            counted == {"ready", "sent", "low_relevance", "error", "enrichment_failed"}
            other == Cardinality({i \in 1..Len(batch.results) :
                                      batch.results[i].status \notin counted})
        IN  /\ s.total = Len(batch.results)
            /\ s.successful + s.low_relevance + s.failed + other = s.total
            /\ s.sent <= s.successful
            /\ \A i \in 1..Len(batch.results) :
                  batch.results[i].status = "low_relevance" =>
                      LET rest == Statistics(Without(batch.results, i))
                      IN  /\ s.low_relevance = rest.low_relevance + 1
                          /\ s.successful = rest.successful
                          /\ s.failed = rest.failed

C16_Witness ==
    /\ batch.pc = "done"
    /\ batch.statistics.low_relevance = 1
    /\ batch.statistics.successful = 1
    /\ batch.statistics.total = 2

\* C17: a batch returns: when no task and no step of the call can run any
\* more, the call has returned, every record has a terminal status and
\* every slot of the semaphore is free again.
C17_Returns ==
    ~(ENABLED BatchNext) =>
        /\ batch.pc = "done"
        /\ \A t \in DOMAIN run : run[t].pc = "done"
        /\ batch.value = batch.max_concurrent

(***************************************************************************)
(* Properties of the generation service's results and of process_lead      *)
(***************************************************************************)
\* exceptions that only a reply of the wrong shape brings about: .get on
\* JSON that is no object, and the fallback subject of a record without
\* company
ShapeErrors == {"AttributeError", "TypeError"}

\* C21: a reply of the generation service that has not the expected shape
\* is answered by a fallback result and never ends the invocation with
\* status error.
C21_FallbackNeverError ==
    \A t \in Tasks :
        run[t].raised \in {"analysis", "generation"} /\ run[t].status = "error"
            => run[t].exc \notin ShapeErrors

\* the record's enrichment succeeded, its relevance is at or above the
\* minimum, its first draft reached the acceptance threshold and auto_send
\* is off
FirstAttemptAccepted(r) ==
    /\ r.enrichment = "success"
    /\ r.analysis # NoAnalysis
    /\ FloatGe(GetRelevance(r.analysis), min_personalization_score)
    /\ Len(r.checks) >= 1
    /\ Accepted(r.checks[1])
    /\ ~r.auto_send

\* the invocation ended with pending_review after one call of the
\* generation service and stored exactly one campaign, which is ready
OneReadyArtifact(r) ==
    /\ r.status = "pending_review"
    /\ r.calls.generate = 1
    /\ Cardinality(NewRows) = 1
    /\ \A i \in NewRows : campaigns[i].status = "ready" /\ r.campaign_id = i

MutatingStages == {"enrich_profile", "enrich_company", "enrich_commit", "analyze"}

LaterStages == {"generate", "quality", "persist", "send"}

Evaluated(email) ==
    [personalization_elements |->
         IF "personalization_elements" \in email.keys
         THEN email.personalization_elements ELSE 0,
     email_body |-> IF "email_body" \in email.keys THEN email.email_body ELSE EmptyBody]

C26_Original ==
    \A t \in Tasks :
        /\ run[t].pc = "enrich_profile"
        /\ HasLinkedin(run[t].lead)
        /\ HasCompany(run[t].lead)
        => ENABLED EnrichCompany(t)

\* C26: the fetches of one enrichment stage run one after the other: the
\* organization fetch cannot start while the profile and activity fetches
\* have not returned, it has started only after both were made when the
\* lead has a profile reference, and once the fetches are over each was
\* made exactly when its input is present, whatever the other returned.
C26_Sequential ==
    \A t \in Tasks :
        LET r == run[t]
            l == r.lead
        IN  /\ r.pc = "enrich_profile" => ~(ENABLED EnrichCompany(t))
            /\ r.calls.company > 0 /\ HasLinkedin(l)
                   => r.calls.scrape = 1 /\ r.calls.activity = 1
            /\ r.pc = "enrich_commit" \/ r.enrichment # "none"
                   => /\ r.calls.scrape = (IF HasLinkedin(l) THEN 1 ELSE 0)
                      /\ r.calls.activity = r.calls.scrape
                      /\ r.calls.company = (IF HasCompany(l) THEN 1 ELSE 0)

C26_Witness ==
    \E t \in Tasks :
        /\ run[t].pc = "enrich_commit"
        /\ run[t].calls.scrape = 1
        /\ run[t].calls.company = 1
        /\ {"linkedin_profile", "company_intelligence"} \subseteq run[t].data

\* C27: the attempts of the refinement loop follow one another and are
\* independent: a further call of the generation service is made only
\* after the draft of the call before it was evaluated and scored below
\* 0.8, at most one call is ahead of the evaluations, and every call
\* carries the same lead, analysis, company context, value proposition and
\* goal, nothing of an earlier attempt.
C27_Attempts ==
    \A t \in Tasks :
        LET r == run[t]
        IN  /\ Len(r.requests) = r.calls.generate
            /\ Len(r.requests) - Len(r.checks) \in {0, 1}
            /\ \A k \in 2..Len(r.requests) :
                  /\ Len(r.drafts) >= k - 1
                  /\ Len(r.checks) >= k - 1
                  /\ FloatLess(r.checks[k - 1].quality_score, F0_8)
                  /\ r.requests[k] = r.requests[1]
            /\ \A k \in 1..Len(r.requests) :
                  /\ r.requests[k].lead = r.lead
                  /\ r.requests[k].analysis = r.analysis
                  /\ r.requests[k].company_context = <<"company_context">>
                  /\ r.requests[k].value_proposition = "value_proposition"

C27_Witness ==
    \E t \in Tasks :
        /\ Len(run[t].requests) = 2
        /\ Len(run[t].checks) = 2
        /\ run[t].checks[1].issues # <<>>
        /\ run[t].status = "pending_review"

\* a score of at least 0.7 and below 0.8
Middling(check) ==
    FloatGe(check.quality_score, F0_7) /\ FloatLess(check.quality_score, F0_8)

\* C28: passes_qa of an evaluation is true exactly when its score is at
\* least 0.7, whatever the 0.8 of the loop and of the send gate: a draft
\* scored in [0.7, 0.8) passes, yet before the last attempt the loop goes
\* on to another generation, and as the final draft it is never
\* dispatched; persistence is reached only on a score of at least 0.8 or
\* after the last attempt, and dispatch only on a score of at least 0.8.
C28_PassesFlag ==
    \A t \in Tasks :
        LET r == run[t]
            n == Len(r.checks)
        IN  /\ \A k \in 1..n :
                  /\ r.checks[k].passes_qa = FloatGe(r.checks[k].quality_score, F0_7)
                  /\ Middling(r.checks[k]) /\ k < max_attempts
                        => /\ r.checks[k].passes_qa
                           /\ r.calls.create = 0 \/ n > k
                           /\ r.pc = "generate" \/ Len(r.requests) > k
            /\ n > 0 /\ Middling(r.checks[n])
                  => /\ r.checks[n].passes_qa
                     /\ r.calls.send = 0
                     /\ r.status # "sent"
            /\ r.pc = "persist" \/ r.calls.create > 0
                  => n > 0 /\ (Accepted(r.checks[n]) \/ n = max_attempts)
            /\ r.pc = "send" \/ r.calls.send > 0
                  => r.auto_send /\ Accepted(r.quality_check)

C28_Witness ==
    \E t \in Tasks :
        /\ run[t].auto_send
        /\ Len(run[t].checks) = 2
        /\ Middling(run[t].checks[1])
        /\ Middling(run[t].checks[2])
        /\ run[t].checks[2].passes_qa
        /\ run[t].status = "pending_review"

\* the checks of _quality_control that a draft fails, decided on the draft
FailedChecks(email) ==
    LET e == Evaluated(email)
    IN  (IF e.personalization_elements >= 3 THEN {} ELSE {"personalization"})
        \cup (IF 50 <= e.email_body.words /\ e.email_body.words <= 200
              THEN {} ELSE {"word_count"})
        \cup (IF e.email_body.cta THEN {} ELSE {"cta"})
        \cup (IF e.email_body.spam THEN {"spam"} ELSE {})

\* C29: an evaluation lists one issue for each check its draft fails and
\* none for a check it meets, so the list is as long as the number of
\* failed checks; the word count and the personalization count it reports
\* are those of the draft, and the two checks on them were decided on the
\* reported values.
C29_Issues ==
    \A t \in Tasks :
        \A k \in 1..Len(run[t].checks) :
            LET check == run[t].checks[k]
                draft == run[t].drafts[k]
                listed == {check.issues[i] : i \in 1..Len(check.issues)}
            IN  /\ listed = FailedChecks(draft)
                /\ Len(check.issues) = Cardinality(FailedChecks(draft))
                /\ check.word_count = Evaluated(draft).email_body.words
                /\ check.personalization_count = Evaluated(draft).personalization_elements
                /\ "personalization" \in listed <=> check.personalization_count < 3
                /\ "word_count" \in listed
                      <=> ~(50 <= check.word_count /\ check.word_count <= 200)

C29_Witness ==
    \E t \in Tasks :
        /\ Len(run[t].checks) = 2
        /\ run[t].drafts = <<WeakEmail, NearEmail>>
        /\ Len(run[t].checks[1].issues) = 4
        /\ run[t].checks[1].word_count = 201
        /\ run[t].checks[2].issues = <<"spam">>
        /\ run[t].checks[2].word_count = 50

\* the number of times the e-mail of campaign i went out: by the send
\* stage of an invocation, and by send_campaign requests
AutoDispatched(i) ==
    \E t \in DOMAIN run :
        /\ run[t].campaign.id = i
        /\ run[t].calls.send > 0
        /\ ~(run[t].raised = "dispatch" /\ run[t].exc = "lead_load")

Dispatches(i) == http.dispatched[i] + (IF AutoDispatched(i) THEN 1 ELSE 0)

\* C30: a send_campaign request for a campaign whose status is sent is
\* answered with 400 and leaves the campaign's status and sent_at as they
\* were, and over the invocations and requests made the e-mail of each
\* campaign goes out at most once.
C30_DispatchedOnce ==
    /\ http.calls > 0 /\ http.row.status = "sent"
          => /\ http.status_code = 400
             /\ campaigns[http.id].status = "sent"
             /\ campaigns[http.id].sent_at = http.row.sent_at
    /\ \A i \in 1..(MaxStored + 1) : Dispatches(i) <= 1

\* C31: a failed request to the API is retried before _call_kimi reports
\* the failure: an invocation that ended on an API error has sent more
\* requests than it made calls of _call_kimi.
C31_RetriedBeforeReport ==
    \A t \in Tasks :
        run[t].exc = "kimi_api"
            => run[t].calls.kimi > run[t].calls.analyze + run[t].calls.generate

\* C33: when the dispatch made by an invocation fails, the invocation ends
\* with status send_failed, its outcome carries the campaign id, and the
\* stored campaign is still ready and has no sent_at.
C33_SendFailed ==
    \A t \in Tasks :
        LET r == run[t]
        IN  r.pc = "done" /\ r.raised = "dispatch" =>
                /\ r.status = "send_failed"
                /\ r.campaign_id \in DOMAIN campaigns
                /\ campaigns[r.campaign_id].status = "ready"
                /\ campaigns[r.campaign_id].sent_at = 0

(***************************************************************************)
(* Properties of enrich_company_data                                       *)
(***************************************************************************)
\* the three contributions to the trigger score of the results kept
TriggerContributions ==
    <<IF intel.funding_info THEN F0_4 ELSE F0_0,
      IF intel.hiring_signals.open_positions > 5 THEN F0_3 ELSE F0_0,
      IF intel.recent_news > 5 THEN F0_2 ELSE F0_0>>

ReturnedStatuses ==
    {"enrichment_failed", "low_relevance", "pending_review", "sent",
     "send_failed", "error"}

\* C32: an invocation that has returned has one of the statuses
\* enrichment_failed, low_relevance, pending_review, sent, send_failed and
\* error, never processing or ready; so the statistics of a batch have
\* successful equal to sent, and 0 when auto_send is off.
C32_ReturnedStatus ==
    /\ \A t \in DOMAIN run :
          run[t].pc = "done" => run[t].status \in ReturnedStatuses
    /\ batch.pc = "done" =>
          /\ \A i \in 1..Len(batch.results) :
                batch.results[i].status \in ReturnedStatuses
          /\ batch.statistics.successful = batch.statistics.sent
          /\ ~batch.auto_send => batch.statistics.successful = 0

C32_Witness ==
    /\ batch.pc = "done"
    /\ batch.auto_send
    /\ batch.statistics.sent = 1
    /\ batch.statistics.successful = 1
    /\ batch.statistics.total = 2

\* C34: a commit makes durable only the changes of completed stages of the
\* record whose stage issued it: as long as the enrichment stage of a
\* record has not succeeded, running or failed, the stored row of the
\* record is as it was before the batch.
C34_OwnChangesOnly ==
    \A t \in DOMAIN run :
        run[t].lead # 0 /\ run[t].enrichment # "success"
            => db_leads[run[t].lead] = NewLead

(***************************************************************************)
(* Properties of process_lead when replies cannot be parsed                *)
(***************************************************************************)
\* the draft was built by the except clause of generate_personalized_email
IsFallback(email) == "error" \in email.keys

BothFallBack(r) ==
    /\ r.pc = "done"
    /\ Len(r.drafts) = 2
    /\ \A k \in 1..2 : IsFallback(r.drafts[k])

\* no fallback draft was accepted
FallbackRejected(r) ==
    \A k \in 1..Len(r.checks) : IsFallback(r.drafts[k]) => ~Accepted(r.checks[k])

\* both attempts were used, one campaign was stored and nothing was sent
StoredForReview(r) ==
    /\ r.calls.generate = max_attempts
    /\ Cardinality(NewRows) = 1
    /\ r.campaign_id \in NewRows
    /\ r.status = "pending_review"
    /\ r.calls.send = 0

AnalysisFellBack(r) ==
    /\ r.pc = "done"
    /\ r.lead # 0
    /\ "analysis" \in Stages(r)
    /\ leads[r.lead].relevance_score = F0_5

\* the generation service was not called and no campaign was stored
NothingGenerated(r) ==
    /\ r.calls.generate = 0
    /\ r.calls.create = 0
    /\ campaigns = before

ProfileFetchFailed(r) ==
    /\ r.lead # 0
    /\ r.calls.scrape > 0
    /\ leads[r.lead].linkedin_profile_data = "error_payload"
    /\ r.pc \notin {"enrich_company", "enrich_commit"}

\* the stage reported success, the error payload is the stored profile
\* snapshot, and the analysis stage is next or has run
PayloadStored(r) ==
    /\ r.enrichment = "success"
    /\ db_leads[r.lead].linkedin_profile_data = "error_payload"
    /\ r.pc = "analyze" \/ "analysis" \in Stages(r)

\* one request per call of scrape_profile, and no exception of the
\* enrichment stage other than that of its commit
NeverRetried(r) ==
    /\ r.calls.fetch = r.calls.scrape
    /\ r.raised = "enrichment" => r.exc = "commit"

\* C38 as stated: the profile is requested once per call and the request
\* raises nothing, and after a failed request the enrichment stage reports
\* success, the error payload is the stored profile snapshot and the
\* analysis stage follows.
C38_Original ==
    \A t \in Tasks :
        /\ NeverRetried(run[t])
        /\ ProfileFetchFailed(run[t]) => PayloadStored(run[t])

\* C38: the profile is requested once per call and the request raises
\* nothing, and after a failed request the enrichment stage reports
\* success, the error payload is the stored profile snapshot and the
\* analysis stage follows, unless the commit of the stage raised.
C38_ProfileFailure ==
    \A t \in Tasks :
        /\ NeverRetried(run[t])
        /\ ProfileFetchFailed(run[t]) /\ run[t].raised # "enrichment"
              => PayloadStored(run[t])

C38_Witness ==
    \E t \in Tasks :
        /\ ProfileFetchFailed(run[t])
        /\ PayloadStored(run[t])
        /\ run[t].calls.fetch = 1
        /\ "analysis" \in Stages(run[t])

\* the refinement loop of the invocation ended without an exception:
\* _create_campaign was called
LoopCompleted(r) == "persist" \in Stages(r)

\* at most one campaign was added, and the rows stored before the
\* invocation are as they were
OneMoreAtMost ==
    /\ Cardinality(NewRows) <= 1
    /\ Len(before) <= Len(campaigns)
    /\ \A i \in 1..Len(before) : campaigns[i] = before[i]

\* C39 as stated: an invocation adds at most one campaign and leaves the
\* earlier ones as they were; when it has ended, it has added one exactly
\* if its refinement loop completed without an exception, and its outcome
\* has a campaign_id exactly if it has added one.
C39_Original ==
    /\ OneMoreAtMost
    /\ \A t \in Tasks :
          LET r == run[t]
          IN  r.pc = "done" =>
                /\ Cardinality(NewRows) = 1 <=> LoopCompleted(r)
                /\ r.campaign_id # 0 <=> NewRows # {}

\* C39: an invocation adds at most one campaign and leaves the earlier
\* ones as they were; when it has ended, it has added one exactly if its
\* refinement loop completed without an exception and _create_campaign
\* raised neither KeyError nor in its commit, and its outcome has a
\* campaign_id, that of the added campaign, exactly if it has added one
\* and the refresh after the commit did not raise.
C39_OneArtifact ==
    /\ OneMoreAtMost
    /\ \A t \in Tasks :
          LET r == run[t]
          IN  r.pc = "done" =>
                /\ Cardinality(NewRows) = 1 <=>
                      /\ LoopCompleted(r)
                      /\ ~(r.raised = "persist" /\ r.exc \in {"KeyError", "commit"})
                /\ r.campaign_id # 0 <=>
                      /\ NewRows # {}
                      /\ ~(r.raised = "persist" /\ r.exc = "refresh")
                /\ r.campaign_id # 0 => r.campaign_id \in NewRows

\* a record that has a campaign from an earlier invocation is processed
\* again and gets a second one
C39_Witness ==
    \E t \in Tasks :
        /\ run[t].pc = "done"
        /\ Len(before) = 1
        /\ before[1].lead_id = run[t].lead
        /\ Len(campaigns) = 2
        /\ campaigns[2].lead_id = run[t].lead
        /\ run[t].campaign_id = 2
        /\ campaigns[1] = before[1]

(***************************************************************************)
(* Properties of _quality_control                                          *)
(***************************************************************************)
\* the number of the three 0.20 checks (length, call to action, no spam
\* phrase) a draft passes
FifthChecks(email) ==
    Cardinality({k \in {"word_count", "cta", "spam"} : k \notin FailedChecks(email)})

\* C35: for a relevance between 0 and 1 the quality score lies between 0
\* and 1; a draft reaches 0.80 only if its personalization check passes and
\* at least two of the three 0.20 checks pass; a draft that passes all four
\* checks reaches 0.80 whatever the relevance.
C35_ScoreRange ==
    \A t \in Tasks :
        LET r == run[t]
            score == r.quality_check.quality_score
        IN  r.pc = "evaluated" =>
              /\ FloatGe(score, F0_0)
              /\ FloatGe(F1_0, score)
              /\ Accepted(r.quality_check) =>
                    /\ "personalization" \notin FailedChecks(r.email)
                    /\ FifthChecks(r.email) >= 2
              /\ FailedChecks(r.email) = {} => Accepted(r.quality_check)

C35_Witness ==
    \E t \in Tasks :
        /\ run[t].pc = "evaluated"
        /\ FailedChecks(run[t].email) = {}
        /\ GetRelevance(run[t].analysis) = F0_0
        /\ Accepted(run[t].quality_check)
        /\ FloatLess(run[t].quality_check.quality_score, F1_0)

=============================================================================
